---- MODULE Spec2Model ----
(***************************************************************************)
(* CUPyDO interface manager (cupydo/manager.py, Manager.__init__): the     *)
(* construction protocol run by every process of the group, with the       *)
(* collective exchanges it performs, and the degenerate run without a      *)
(* communicator.                                                           *)
(***************************************************************************)
EXTENDS Integers, Sequences, FiniteSets, TLC

\* ------------------------------------------------------------------------
\* Bounds of the model
\* ------------------------------------------------------------------------
\* largest process group
MaxProcs == 2
\* vertex slots (physical + halo) over all ranks and both sides
MaxNodes == 3
\* (rank, side) pairs whose solver collaborator is None
MaxAbsent == 1

\* vertices of each of the three lifting surfaces of a VLM mesh: 0..MaxVert
MaxVert == 2

\* calls of VLMSolver.run on one solver
MaxRuns == 3

\* the times handed to VLMSolver.run: 0..MaxTime
MaxTime == 1

\* offset of the flap vertices in VLMSolver.getNodalIndex
FlapOffset == 10000

\* offset of the aileron vertices in VLMSolver.getNodalIndex
AileronOffset == 20000

VARIABLES mpiComm, mpiSize, FluidSolver, SolidSolver, mgr, pc, calls, ret,
          w, built

vars == <<mpiComm, mpiSize, FluidSolver, SolidSolver, mgr, pc, calls, ret,
          w, built>>

Ranks == 0..(mpiSize - 1)

\* ------------------------------------------------------------------------
\* Generic helpers
\* ------------------------------------------------------------------------
Min(S) == CHOOSE x \in S : \A y \in S : x <= y

RECURSIVE SortedSeq(_)
\* the elements of a finite set of integers in increasing order
SortedSeq(S) == IF S = {} THEN <<>> ELSE <<Min(S)>> \o SortedSeq(S \ {Min(S)})

RECURSIVE SumTo(_, _)
\* f[0] + ... + f[n-1]  (python: for iProc in range(n): acc += f[iProc])
SumTo(f, n) == IF n <= 0 THEN 0 ELSE SumTo(f, n - 1) + f[n - 1]

Range(s) == {s[i] : i \in DOMAIN s}

\* ------------------------------------------------------------------------
\* The solver collaborators handed to the constructor (one per rank and
\* side).  A decomposition gives rank p "own[p]" physical nodes, numbered
\* consecutively over the ranks from 10, and "nh[p]" ghost copies of nodes
\* owned by other ranks; local vertex positions list the identifiers in
\* increasing order.
\* ------------------------------------------------------------------------
NodeId(g) == 10 + g

OwnedIds(own, p) == {NodeId(SumTo(own, p) + k) : k \in 0..(own[p] - 1)}

OthersIds(own, p) == UNION {OwnedIds(own, q) : q \in (DOMAIN own) \ {p}}

GhostIds(own, nh, p) ==
    {i \in OthersIds(own, p) :
        Cardinality({j \in OthersIds(own, p) : j < i}) < nh[p]}

NoSolver ==
    [isNone |-> TRUE, nNodes |-> 0, nPhysicalNodes |-> 0,
     haloNodeList |-> {}, nodalIndex |-> <<>>]

MakeSolver(own, nh, p) ==
    [isNone |-> FALSE,
     nNodes |-> own[p] + nh[p],
     nPhysicalNodes |-> own[p],
     haloNodeList |-> GhostIds(own, nh, p),
     nodalIndex |-> SortedSeq(OwnedIds(own, p) \cup GhostIds(own, nh, p))]

\* solver.getNodalIndex(iVertex), iVertex 0-based
getNodalIndex(solver, iVertex) == solver.nodalIndex[iVertex + 1]

\* variant: the flap and aileron vertices are numbered without their offset
VLMSolver_getNodalIndex_NoOffset(wing_nvert, flap_nvert, iVertex) ==
    IF iVertex > wing_nvert + flap_nvert
    THEN iVertex - wing_nvert - flap_nvert
    ELSE IF iVertex > wing_nvert
    THEN iVertex - wing_nvert
    ELSE iVertex

\* VLMSolver.getNodalIndex(iVertex) on a mesh with the given numbers of wing
\* and flap vertices
VLMSolver_getNodalIndex(wing_nvert, flap_nvert, iVertex) ==
    IF iVertex > wing_nvert + flap_nvert
    THEN iVertex + AileronOffset - wing_nvert - flap_nvert
    ELSE IF iVertex > wing_nvert
    THEN iVertex + FlapOffset - wing_nvert
    ELSE iVertex

\* VLMSolver.__init__: the node counts of a mesh of wing, flap and aileron
MakeVLMSolver(wing_nvert, flap_nvert, aileron_nvert) ==
    LET nNodes == wing_nvert + flap_nvert + aileron_nvert
        nHaloNode == 0
    IN  [isNone |-> FALSE,
         nNodes |-> nNodes,
         nPhysicalNodes |-> nNodes - nHaloNode,
         haloNodeList |-> {},
         nodalIndex |-> [j \in 1..nNodes |->
                           VLMSolver_getNodalIndex(wing_nvert, flap_nvert, j - 1)],
         wing_nvert |-> wing_nvert,
         flap_nvert |-> flap_nvert,
         aileron_nvert |-> aileron_nvert,
         isRun |-> FALSE,
         coreSolver |-> <<>>,
         runCalls |-> <<>>,
         otherCalls |-> 0]

\* VLMSolver.update(dt): the generic update, then the update of the core
VLMSolver_update(s, dt) ==
    [s EXCEPT !.coreSolver = @ \o << <<"FluidSolver.update", dt>>,
                                     <<"coreSolver.update", 0>> >>]

\* VLMSolver.save(nt): the core solver saves, nt is not used
VLMSolver_save(s, nt) ==
    [s EXCEPT !.coreSolver = Append(@, <<"coreSolver.save", 0>>)]

\* variant: every call of run updates, the first included
VLMSolver_run_AlwaysUpdate(s, t1, t2) ==
    LET u == VLMSolver_update([s EXCEPT !.isRun = TRUE], t2 - t1)
    IN  [u EXCEPT !.coreSolver = @ \o << <<"coreSolver.run", 0>>,
                                        <<"setCurrentState", 0>> >>,
                  !.runCalls = Append(@, <<t1, t2>>)]

\* VLMSolver.run(t1, t2): the calls it makes on the core solver, in order,
\* and the refresh of the nodal loads that ends it
VLMSolver_run(s, t1, t2) ==
    LET u == IF s.isRun THEN VLMSolver_update(s, t2 - t1)
             ELSE [s EXCEPT !.isRun = TRUE]
    IN  [u EXCEPT !.coreSolver = @ \o << <<"coreSolver.run", 0>>,
                                        <<"setCurrentState", 0>> >>,
                  !.runCalls = Append(@, <<t1, t2>>)]

\* the decomposition contract of the inputs: ghost copies exist only of
\* nodes some other rank owns, an absent solver holds nothing
ValidDecomposition(own, nh, present, n) ==
    /\ \A p \in 0..(n - 1) :
          /\ nh[p] <= Cardinality(OthersIds(own, p))
          /\ ~present[p] => (own[p] = 0 /\ nh[p] = 0)

\* an identifier no vertex of the decomposition carries
StrayId == NodeId(MaxNodes)

\* a collaborator that breaks the contract: its halo set names an identifier
\* that is none of its vertices ("stray"), or it holds a ghost vertex that no
\* rank owns ("unowned")
WithAnomaly(solver, kind) ==
    CASE kind = "stray" ->
             [solver EXCEPT !.haloNodeList = @ \cup {StrayId}]
      [] kind = "unowned" ->
             [solver EXCEPT !.haloNodeList = @ \cup {StrayId},
                            !.nodalIndex = Append(@, StrayId),
                            !.nNodes = @ + 1]
      [] OTHER -> solver

\* the value of the global w of the PFEM test module before getPfem is called
PyNone == [class |-> "NoneType"]

\* the pfem library module
PfemLibrary == [class |-> "module", name |-> "pfem"]

\* Module(w, msh, pbl, solScheme, nonLinAlgo, convCriterion, scheme,
\* extManager, gui)
Module(lib) ==
    [class |-> "Module", w |-> lib, msh |-> "MshData", pbl |-> "Problem",
     solScheme |-> "SchemeMonolithicPSPG", nonLinAlgo |-> "PicardAlgorithm",
     convCriterion |-> "ForcesBalanceNormedBodyForceCriterion",
     scheme |-> "BackwardEuler", extManager |-> "ExtractorsManager",
     gui |-> "MeshViewer"]

\* no accessor call is outstanding
NoCall == [name |-> "none", args |-> <<>>, value |-> 0]

\* ------------------------------------------------------------------------
\* Initial state: the arguments of Manager(FluidSolver, SolidSolver, nDim,
\* computationType, mpiComm) on every rank, and the attributes the
\* constructor initialises before it identifies the interfaces.
\* ------------------------------------------------------------------------
NewManager ==
    [nDim |-> 2,
     computationType |-> "steady",
     haveFluidSolver |-> FALSE,
     nLocalFluidInterfaceNodes |-> 0,
     nLocalFluidInterfacePhysicalNodes |-> 0,
     haveFluidInterface |-> FALSE,
     fluidHaloNodesList_local |-> {},
     fluidHaloNodesList |-> <<>>,
     fluidIndexing |-> <<>>,
     haveSolidSolver |-> FALSE,
     nLocalSolidInterfaceNodes |-> 0,
     nLocalSolidInterfacePhysicalNodes |-> 0,
     haveSolidInterface |-> FALSE,
     solidHaloNodesList_local |-> {},
     solidHaloNodesList |-> <<>>,
     solidIndexing |-> <<>>,
     sendBufFluid |-> -1,
     sendBufSolid |-> -1,
     sendBufFluidInterface |-> -1,
     sendBufSolidInterface |-> -1,
     fluidSolverProcessors |-> <<>>,
     solidSolverProcessors |-> <<>>,
     fluidInterfaceProcessors |-> <<>>,
     solidInterfaceProcessors |-> <<>>,
     nFluidInterfaceNodes |-> 0,
     nFluidInterfacePhysicalNodes |-> 0,
     nSolidInterfaceNodes |-> 0,
     nSolidInterfacePhysicalNodes |-> 0,
     fluidPhysicalInterfaceNodesDistribution |-> <<>>,
     solidPhysicalInterfaceNodesDistribution |-> <<>>,
     fluidGlobalIndexRange_temp |-> <<0, 0>>,
     solidGlobalIndexRange_temp |-> <<0, 0>>,
     fluidGlobalIndexRange |-> <<>>,
     solidGlobalIndexRange |-> <<>>,
     fluidIndexing_temp |-> <<>>,
     solidIndexing_temp |-> <<>>]

InitWith(anomalies) ==
    \E n \in 1..MaxProcs, comm \in BOOLEAN :
      /\ (~comm => n = 1)
      /\ \E ownF \in [0..(n - 1) -> 0..MaxNodes] :
           /\ SumTo(ownF, n) <= MaxNodes
           /\ \E ownS \in [0..(n - 1) -> 0..(MaxNodes - SumTo(ownF, n))] :
                /\ SumTo(ownF, n) + SumTo(ownS, n) <= MaxNodes
                /\ \E nhF \in [0..(n - 1) ->
                                 0..(MaxNodes - SumTo(ownF, n) - SumTo(ownS, n))] :
                     /\ SumTo(ownF, n) + SumTo(ownS, n) + SumTo(nhF, n) <= MaxNodes
                     /\ \E nhS \in [0..(n - 1) ->
                                0..(MaxNodes - SumTo(ownF, n) - SumTo(ownS, n)
                                      - SumTo(nhF, n))] :
                          /\ SumTo(ownF, n) + SumTo(ownS, n)
                               + SumTo(nhF, n) + SumTo(nhS, n) <= MaxNodes
                          /\ \E presF \in [0..(n - 1) -> BOOLEAN],
                                presS \in [0..(n - 1) -> BOOLEAN] :
                               /\ ValidDecomposition(ownF, nhF, presF, n)
                               /\ ValidDecomposition(ownS, nhS, presS, n)
                               /\ Cardinality({q \in 0..(n - 1) : ~presF[q]})
                                    + Cardinality({q \in 0..(n - 1) : ~presS[q]})
                                    <= MaxAbsent
                               /\ mpiComm = comm
                               /\ mpiSize = n
                               /\ \E kind \in anomalies, side \in {"fluid", "solid"},
                                     bad \in 0..(n - 1) :
                                    /\ kind = "none" => (side = "fluid" /\ bad = 0)
                                    /\ kind # "none" =>
                                          IF side = "fluid" THEN presF[bad]
                                          ELSE presS[bad]
                                    /\ FluidSolver = [q \in 0..(n - 1) |->
                                          IF ~presF[q] THEN NoSolver
                                          ELSE IF side = "fluid" /\ bad = q
                                          THEN WithAnomaly(MakeSolver(ownF, nhF, q), kind)
                                          ELSE MakeSolver(ownF, nhF, q)]
                                    /\ SolidSolver = [q \in 0..(n - 1) |->
                                          IF ~presS[q] THEN NoSolver
                                          ELSE IF side = "solid" /\ bad = q
                                          THEN WithAnomaly(MakeSolver(ownS, nhS, q), kind)
                                          ELSE MakeSolver(ownS, nhS, q)]
                               /\ mgr = [q \in 0..(n - 1) |-> NewManager]
                               /\ pc = [q \in 0..(n - 1) |-> "start"]
                               /\ calls = [q \in 0..(n - 1) |-> <<>>]
                               /\ ret = NoCall
                               /\ w = PyNone
                               /\ built = 0

\* the constructor is handed collaborators that obey the contract
Init == InitWith({"none"})

\* the constructor is handed a VLM fluid solver, on one process without a
\* communicator
InitVLM ==
    \E wing_nvert \in 0..MaxVert, flap_nvert \in 0..MaxVert,
       aileron_nvert \in 0..MaxVert, nSolid \in -1..MaxVert :
        /\ mpiComm = FALSE
        /\ mpiSize = 1
        /\ FluidSolver = [q \in {0} |->
                            MakeVLMSolver(wing_nvert, flap_nvert, aileron_nvert)]
        /\ SolidSolver = [q \in {0} |->
                            IF nSolid = -1 THEN NoSolver
                            ELSE MakeSolver([r \in {0} |-> nSolid],
                                            [r \in {0} |-> 0], 0)]
        /\ mgr = [q \in {0} |-> NewManager]
        /\ pc = [q \in {0} |-> "start"]
        /\ calls = [q \in {0} |-> <<>>]
        /\ ret = NoCall
        /\ w = PyNone
        /\ built = 0

\* the constructor is handed collaborators one of which breaks the contract
InitContract == InitWith({"stray", "unowned"})

\* ------------------------------------------------------------------------
\* Collective operations of the process group.  A rank that has issued a
\* collective stays blocked in it until every rank of the group has issued
\* it; the value a rank contributed is the one it stored before the call.
\* A label names the collective a rank is blocked in, its number is the
\* number of collectives the rank has issued.
\* ------------------------------------------------------------------------
StageNo(l) ==
    CASE l = "start" -> 0
      [] l = "presence1" -> 1
      [] l = "presence2" -> 2
      [] l = "presence3" -> 3
      [] l = "presence" -> 4
      [] l = "barrier" -> 5
      [] l = "aborted" -> 5
      [] l = "halo1" -> 6
      [] l = "halo" -> 7
      [] l = "reduce1" -> 8
      [] l = "reduce2" -> 9
      [] l = "reduce3" -> 10
      [] l = "reduce" -> 11
      [] l = "distribution1" -> 12
      [] l = "distribution" -> 13
      [] l = "range1" -> 14
      [] l = "range" -> 15
      [] l = "map1" -> 16
      [] l = "map" -> 17
      [] l = "done" -> 18

\* every rank of the group has issued its k-th collective
AllArrived(k) == \A q \in Ranks : StageNo(pc[q]) >= k

\* all-gather: the contributions of all ranks, indexed by rank
mpiAllGather(field) == [q \in Ranks |-> mgr[q][field]]

\* all-reduce (sum) of one integer per rank
mpiAllReduce(field) == SumTo(mpiAllGather(field), mpiSize)

RECURSIVE FilterSentinel(_, _)
\* rcvBuf[rcvBuf != -1] on the first n entries, order kept
FilterSentinel(rcvBuf, n) ==
    IF n = 0 THEN <<>>
    ELSE LET rest == FilterSentinel(rcvBuf, n - 1)
         IN  IF rcvBuf[n - 1] # -1 THEN Append(rest, rcvBuf[n - 1]) ELSE rest

\* ------------------------------------------------------------------------
\* Manager.__init__, step by step (one rank, record m of its attributes)
\* ------------------------------------------------------------------------
\* identify the interfaces and fill the four presence send buffers
IdentifyInterfaces(m, myid, comm) ==
    LET fs == FluidSolver[myid]
        ss == SolidSolver[myid]
        haveF == ~fs.isNone
        haveS == ~ss.isNone
        nF == IF haveF THEN fs.nNodes ELSE 0
        nS == IF haveS THEN ss.nNodes ELSE 0
        haveFI == haveF /\ nF # 0
        haveSI == haveS /\ nS # 0
    IN  [m EXCEPT !.haveFluidSolver = haveF,
                  !.nLocalFluidInterfaceNodes = nF,
                  !.haveFluidInterface = haveFI,
                  !.haveSolidSolver = haveS,
                  !.nLocalSolidInterfaceNodes = nS,
                  !.haveSolidInterface = haveSI,
                  !.sendBufFluid = IF comm /\ haveF THEN myid ELSE -1,
                  !.sendBufSolid = IF comm /\ haveS THEN myid ELSE -1,
                  !.sendBufFluidInterface = IF comm /\ haveFI THEN myid ELSE -1,
                  !.sendBufSolidInterface = IF comm /\ haveSI THEN myid ELSE -1]

\* the four ordered process-rank sets
SetProcessors(m, comm) ==
    IF comm
    THEN [m EXCEPT
            !.fluidSolverProcessors =
                FilterSentinel(mpiAllGather("sendBufFluid"), mpiSize),
            !.solidSolverProcessors =
                FilterSentinel(mpiAllGather("sendBufSolid"), mpiSize),
            !.fluidInterfaceProcessors =
                FilterSentinel(mpiAllGather("sendBufFluidInterface"), mpiSize),
            !.solidInterfaceProcessors =
                FilterSentinel(mpiAllGather("sendBufSolidInterface"), mpiSize)]
    ELSE [m EXCEPT !.fluidSolverProcessors = <<0>>,
                   !.solidSolverProcessors = <<0>>,
                   !.fluidInterfaceProcessors = <<0>>,
                   !.solidInterfaceProcessors = <<0>>]

\* reading an attribute of a collaborator that is None raises
RaisesOnHalo(m, myid) ==
    \/ FluidSolver[myid].isNone
    \/ (myid \in Range(m.solidSolverProcessors) /\ SolidSolver[myid].isNone)

\* the halo dictionaries (their keys) a rank hands to the halo all-gathers
GetHaloNodes(m, myid, comm) ==
    LET local ==
          [m EXCEPT
             !.fluidHaloNodesList_local = FluidSolver[myid].haloNodeList,
             !.solidHaloNodesList_local =
                 IF myid \in Range(m.solidSolverProcessors)
                 THEN SolidSolver[myid].haloNodeList ELSE @]
    IN  IF comm THEN local
        ELSE [local EXCEPT !.fluidHaloNodesList = [q \in {0} |-> {}],
                           !.solidHaloNodesList = [q \in {0} |-> {}]]
\* line 150: the fluid halo dictionaries returned by the all-gather
GatherFluidHalo(m) ==
    [m EXCEPT !.fluidHaloNodesList = mpiAllGather("fluidHaloNodesList_local")]

\* lines 151-159: the solid halo dictionaries returned by the all-gather, the
\* local physical node counts
GetPhysicalNodes(m, myid, comm) ==
    LET halo ==
          IF comm
          THEN [m EXCEPT
                  !.solidHaloNodesList = mpiAllGather("solidHaloNodesList_local")]
          ELSE m
    IN  [halo EXCEPT
           !.nLocalFluidInterfacePhysicalNodes = FluidSolver[myid].nPhysicalNodes,
           !.nLocalSolidInterfacePhysicalNodes =
               IF myid \in Range(m.solidSolverProcessors)
               THEN SolidSolver[myid].nPhysicalNodes ELSE @]

\* mpiAllReduce(mpiComm, value): the sum over the ranks, the value itself
\* without a communicator
AllReduce(m, field, comm) == IF comm THEN mpiAllReduce(field) ELSE m[field]

\* line 162
ReduceFluidNodes(m, comm) ==
    [m EXCEPT !.nFluidInterfaceNodes =
                  AllReduce(m, "nLocalFluidInterfaceNodes", comm)]

\* variant: the physical total is reduced from the counts that include halo
ReduceFluidPhysicalNodes_WithHalo(m, comm) ==
    [m EXCEPT !.nFluidInterfacePhysicalNodes =
                  AllReduce(m, "nLocalFluidInterfaceNodes", comm)]

\* line 163
ReduceFluidPhysicalNodes(m, comm) ==
    [m EXCEPT !.nFluidInterfacePhysicalNodes =
                  AllReduce(m, "nLocalFluidInterfacePhysicalNodes", comm)]

\* line 164
ReduceSolidNodes(m, comm) ==
    [m EXCEPT !.nSolidInterfaceNodes =
                  AllReduce(m, "nLocalSolidInterfaceNodes", comm)]

\* line 165
ReduceSolidPhysicalNodes(m, comm) ==
    [m EXCEPT !.nSolidInterfacePhysicalNodes =
                  AllReduce(m, "nLocalSolidInterfacePhysicalNodes", comm)]

\* lines 162-165 in a row
PhysicalTotals(m, comm) ==
    ReduceSolidPhysicalNodes(ReduceSolidNodes(ReduceFluidPhysicalNodes(
        ReduceFluidNodes(m, comm), comm), comm), comm)

\* lines 172-173: np.zeros(mpiSize) for both distribution vectors
InitDistribution(m) ==
    [m EXCEPT !.fluidPhysicalInterfaceNodesDistribution = [q \in Ranks |-> 0],
              !.solidPhysicalInterfaceNodesDistribution = [q \in Ranks |-> 0]]

\* lines 175, 178: the fluid distribution vector
GatherFluidDistribution(m, comm) ==
    [m EXCEPT !.fluidPhysicalInterfaceNodesDistribution =
                  IF comm THEN mpiAllGather("nLocalFluidInterfacePhysicalNodes")
                  ELSE [q \in {0} |-> m.nFluidInterfacePhysicalNodes]]

\* lines 176, 179: the solid distribution vector
GatherSolidDistribution(m, comm) ==
    [m EXCEPT !.solidPhysicalInterfaceNodesDistribution =
                  IF comm THEN mpiAllGather("nLocalSolidInterfacePhysicalNodes")
                  ELSE [q \in {0} |-> m.nSolidInterfacePhysicalNodes]]

\* variant: every rank starts its range at 0
GlobalIndexStart_Zero(distribution, myid) == 0

\* exclusive prefix sum of a distribution vector over the ranks below myid
GlobalIndexStart(distribution, myid) == SumTo(distribution, myid)

\* the pair a rank publishes for the fluid side
FluidRangeTemp(m, myid) ==
    IF myid \in Range(m.fluidInterfaceProcessors)
    THEN LET globalIndexStart ==
                 GlobalIndexStart(m.fluidPhysicalInterfaceNodesDistribution, myid)
         IN  <<globalIndexStart,
               globalIndexStart + m.nLocalFluidInterfacePhysicalNodes - 1>>
    ELSE <<0, 0>>

\* the pair a rank publishes for the solid side
SolidRangeTemp(m, myid) ==
    IF myid \in Range(m.solidInterfaceProcessors)
    THEN LET globalIndexStart ==
                 GlobalIndexStart(m.solidPhysicalInterfaceNodesDistribution, myid)
         IN  <<globalIndexStart,
               globalIndexStart + m.nLocalSolidInterfaceNodes - 1>>
    ELSE <<0, 0>>

\* variant: the stop is one past the last index
SerialRange_Exclusive(n) == <<0, n>>

\* temp = (0, n-1): the pair of the single process of a run without communicator
SerialRange(n) == <<0, n - 1>>

\* lines 183-194, 207-209: the fluid pair of this rank
SetFluidRange(m, myid, comm) ==
    IF comm
    THEN [m EXCEPT !.fluidGlobalIndexRange_temp = FluidRangeTemp(m, myid)]
    ELSE [m EXCEPT
            !.fluidGlobalIndexRange =
                [q \in {0} |-> SerialRange(m.nLocalFluidInterfacePhysicalNodes)]]

\* lines 196-205, 211-213: the solid pair of this rank
SetSolidRange(m, myid, comm) ==
    IF comm
    THEN [m EXCEPT !.solidGlobalIndexRange_temp = SolidRangeTemp(m, myid)]
    ELSE [m EXCEPT
            !.solidGlobalIndexRange =
                [q \in {0} |-> SerialRange(m.nSolidInterfacePhysicalNodes)]]

\* variant: the offset is added to the stop of the range
getGlobalIndex_FromStop(m, domain, iProc, iLocalVertex) ==
    CASE domain = "fluid" -> m.fluidGlobalIndexRange[iProc][2] + iLocalVertex
      [] domain = "solid" -> m.solidGlobalIndexRange[iProc][2] + iLocalVertex
      [] OTHER -> "UnboundLocalError"

\* Manager.getGlobalIndex(domain, iProc, iLocalVertex): globalStartIndex is
\* bound for the domains 'fluid' and 'solid' only, reading it unbound raises
getGlobalIndex(m, domain, iProc, iLocalVertex) ==
    CASE domain = "fluid" -> m.fluidGlobalIndexRange[iProc][1] + iLocalVertex
      [] domain = "solid" -> m.solidGlobalIndexRange[iProc][1] + iLocalVertex
      [] OTHER -> "UnboundLocalError"

RECURSIVE IndexingLoop_KeepHalo(_, _, _, _, _, _)
\* variant: the loop without the halo test
IndexingLoop_KeepHalo(m, domain, solver, haloKeys, myid, n) ==
    IF n = 0 THEN [map |-> <<>>, localIndex |-> 0]
    ELSE LET prev == IndexingLoop_KeepHalo(m, domain, solver, haloKeys, myid, n - 1)
             nodeIndex == solver.nodalIndex[n]
         IN  [map |-> (nodeIndex :> (prev.localIndex
                          + (IF domain = "fluid"
                             THEN m.fluidGlobalIndexRange[myid][1]
                             ELSE m.solidGlobalIndexRange[myid][1])))
                      @@ prev.map,
              localIndex |-> prev.localIndex + 1]

RECURSIVE IndexingLoop_HaloConsumes(_, _, _, _, _, _)
\* variant: a halo vertex is skipped but uses up an index
IndexingLoop_HaloConsumes(m, domain, solver, haloKeys, myid, n) ==
    IF n = 0 THEN [map |-> <<>>, localIndex |-> 0]
    ELSE LET prev == IndexingLoop_HaloConsumes(m, domain, solver, haloKeys, myid, n - 1)
             nodeIndex == getNodalIndex(solver, n - 1)
         IN  IF nodeIndex \in haloKeys
             THEN [map |-> prev.map, localIndex |-> prev.localIndex + 1]
             ELSE [map |-> (nodeIndex :>
                              getGlobalIndex(m, domain, myid, prev.localIndex))
                           @@ prev.map,
                   localIndex |-> prev.localIndex + 1]

RECURSIVE IndexingLoop(_, _, _, _, _, _)
\* the loop over the first n local vertex positions: the partial map built
\* so far and the running localIndex
IndexingLoop(m, domain, solver, haloKeys, myid, n) ==
    IF n = 0 THEN [map |-> <<>>, localIndex |-> 0]
    ELSE LET prev == IndexingLoop(m, domain, solver, haloKeys, myid, n - 1)
             nodeIndex == getNodalIndex(solver, n - 1)
         IN  IF nodeIndex \in haloKeys THEN prev
             ELSE [map |-> (nodeIndex :>
                              getGlobalIndex(m, domain, myid, prev.localIndex))
                           @@ prev.map,
                   localIndex |-> prev.localIndex + 1]

\* line 194: the fluid ranges returned by the all-gather
GatherFluidRange(m) ==
    [m EXCEPT !.fluidGlobalIndexRange = mpiAllGather("fluidGlobalIndexRange_temp")]

\* line 205: the solid ranges returned by the all-gather
GatherSolidRange(m) ==
    [m EXCEPT !.solidGlobalIndexRange = mpiAllGather("solidGlobalIndexRange_temp")]

\* lines 216-234: the partial maps of this rank
BuildIndexing(m, myid) ==
    [m EXCEPT
       !.fluidIndexing_temp =
           IndexingLoop(m, "fluid", FluidSolver[myid],
                        m.fluidHaloNodesList[myid],
                        myid, m.nLocalFluidInterfaceNodes).map,
       !.solidIndexing_temp =
           IndexingLoop(m, "solid", SolidSolver[myid],
                        m.solidHaloNodesList[myid],
                        myid, m.nLocalSolidInterfaceNodes).map]

RECURSIVE MergeMaps(_, _)
\* for ii in range(n): for key, value in maps[ii].items(): merged[key] = value
MergeMaps(maps, n) ==
    IF n = 0 THEN <<>> ELSE maps[n - 1] @@ MergeMaps(maps, n - 1)

\* variant: every rank keeps its own partial maps only
MergeIndexing_OwnOnly(m, comm) ==
    [m EXCEPT !.fluidIndexing = m.fluidIndexing_temp,
              !.solidIndexing = m.solidIndexing_temp]

\* the merged maps
MergeIndexing(m, comm) ==
    IF comm
    THEN [m EXCEPT
            !.solidIndexing = MergeMaps(mpiAllGather("solidIndexing_temp"), mpiSize),
            !.fluidIndexing = MergeMaps(mpiAllGather("fluidIndexing_temp"), mpiSize)]
    ELSE [m EXCEPT !.fluidIndexing = m.fluidIndexing_temp,
                   !.solidIndexing = m.solidIndexing_temp]

\* ------------------------------------------------------------------------
\* Actions: one step per collective of the constructor on one rank.  A step
\* starts when the collective the rank is blocked in returns (every rank of
\* the group has issued it), stores its result, runs the code up to the next
\* collective and issues it.  Without a communicator nothing blocks and the
\* constructor runs through each stretch in one step.
\* ------------------------------------------------------------------------
Issue(p, names) == calls' = [calls EXCEPT ![p] = IF mpiComm THEN @ \o names ELSE @]

Goto(p, l) == pc' = [pc EXCEPT ![p] = l]

\* the collective of label "from" returns on rank p, the rank goes on with
\* the attributes m and blocks in the collective "name" at label "to"
Step(p, from, to, m, name) ==
    /\ pc[p] = from
    /\ AllArrived(StageNo(from))
    /\ mgr' = [mgr EXCEPT ![p] = m]
    /\ Goto(p, to)
    /\ Issue(p, name)

\* lines 56-133: initialise, identify the interfaces, the four presence
\* gathers one after the other
PresenceDiscovery(p) ==
    /\ \/ Step(p, "start", IF mpiComm THEN "presence1" ELSE "presence",
               IdentifyInterfaces(mgr[p], p, mpiComm), <<"allgather:fluidSolver">>)
       \/ Step(p, "presence1", "presence2", mgr[p], <<"allgather:solidSolver">>)
       \/ Step(p, "presence2", "presence3", mgr[p], <<"allgather:fluidInterface">>)
       \/ Step(p, "presence3", "presence", mgr[p], <<"allgather:solidInterface">>)
    /\ UNCHANGED <<w, built, ret, mpiComm, mpiSize, FluidSolver, SolidSolver>>

\* lines 133-143: filter the sentinels, issue the barrier
ProcessorLists(p) ==
    /\ Step(p, "presence", "barrier", SetProcessors(mgr[p], mpiComm), <<"barrier">>)
    /\ UNCHANGED <<w, built, ret, mpiComm, mpiSize, FluidSolver, SolidSolver>>

\* lines 143-151: read the halo dictionaries, the two halo gathers
HaloExchange(p) ==
    /\ \/ /\ pc[p] = "barrier"
          /\ ~RaisesOnHalo(mgr[p], p)
          /\ Step(p, "barrier", IF mpiComm THEN "halo1" ELSE "halo",
                  GetHaloNodes(mgr[p], p, mpiComm), <<"allgather:fluidHalo">>)
       \/ Step(p, "halo1", "halo", GatherFluidHalo(mgr[p]), <<"allgather:solidHalo">>)
    /\ UNCHANGED <<w, built, ret, mpiComm, mpiSize, FluidSolver, SolidSolver>>

\* lines 146, 148: the collaborator is None, the constructor raises
Abort(p) ==
    /\ pc[p] = "barrier"
    /\ AllArrived(StageNo("barrier"))
    /\ RaisesOnHalo(mgr[p], p)
    /\ Goto(p, "aborted")
    /\ UNCHANGED <<w, built, ret, mpiComm, mpiSize, FluidSolver, SolidSolver, mgr, calls>>

\* lines 151-165: physical counts, the four all-reduces
PhysicalCount(p) ==
    /\ \/ Step(p, "halo", IF mpiComm THEN "reduce1" ELSE "reduce",
               IF mpiComm THEN GetPhysicalNodes(mgr[p], p, TRUE)
               ELSE PhysicalTotals(GetPhysicalNodes(mgr[p], p, FALSE), FALSE),
               <<"allreduce:fluidNodes">>)
       \/ Step(p, "reduce1", "reduce2", ReduceFluidNodes(mgr[p], TRUE),
               <<"allreduce:fluidPhysicalNodes">>)
       \/ Step(p, "reduce2", "reduce3", ReduceFluidPhysicalNodes(mgr[p], TRUE),
               <<"allreduce:solidNodes">>)
       \/ Step(p, "reduce3", "reduce", ReduceSolidNodes(mgr[p], TRUE),
               <<"allreduce:solidPhysicalNodes">>)
    /\ UNCHANGED <<w, built, ret, mpiComm, mpiSize, FluidSolver, SolidSolver>>

\* lines 165-179: the last total, the two distribution gathers
Distribution(p) ==
    /\ \/ Step(p, "reduce", IF mpiComm THEN "distribution1" ELSE "distribution",
               IF mpiComm
               THEN InitDistribution(ReduceSolidPhysicalNodes(mgr[p], TRUE))
               ELSE GatherSolidDistribution(GatherFluidDistribution(
                        InitDistribution(mgr[p]), FALSE), FALSE),
               <<"allgather:fluidDistribution">>)
       \/ Step(p, "distribution1", "distribution",
               GatherFluidDistribution(mgr[p], TRUE),
               <<"allgather:solidDistribution">>)
    /\ UNCHANGED <<w, built, ret, mpiComm, mpiSize, FluidSolver, SolidSolver>>

\* lines 176-213: own ranges, the two range gathers
IndexRange(p) ==
    /\ \/ Step(p, "distribution", IF mpiComm THEN "range1" ELSE "range",
               IF mpiComm
               THEN SetFluidRange(GatherSolidDistribution(mgr[p], TRUE), p, TRUE)
               ELSE SetSolidRange(SetFluidRange(mgr[p], p, FALSE), p, FALSE),
               <<"allgather:fluidRange">>)
       \/ Step(p, "range1", "range", SetSolidRange(GatherFluidRange(mgr[p]), p, TRUE),
               <<"allgather:solidRange">>)
    /\ UNCHANGED <<w, built, ret, mpiComm, mpiSize, FluidSolver, SolidSolver>>

\* lines 205-238: partial maps, the two map gathers
LocalMap(p) ==
    /\ \/ Step(p, "range", IF mpiComm THEN "map1" ELSE "map",
               IF mpiComm THEN BuildIndexing(GatherSolidRange(mgr[p]), p)
               ELSE BuildIndexing(mgr[p], p),
               <<"allgather:fluidIndexing">>)
       \/ Step(p, "map1", "map", mgr[p], <<"allgather:solidIndexing">>)
    /\ UNCHANGED <<w, built, ret, mpiComm, mpiSize, FluidSolver, SolidSolver>>

\* lines 238-248: merge
Merge(p) ==
    /\ Step(p, "map", "done", MergeIndexing(mgr[p], mpiComm), <<>>)
    /\ UNCHANGED <<w, built, ret, mpiComm, mpiSize, FluidSolver, SolidSolver>>

\* ------------------------------------------------------------------------
\* The accessors of a constructed manager.  The consumers (interpolator,
\* coupling algorithm) are built after the barrier that follows the
\* construction, one call at a time on a rank.
\* ------------------------------------------------------------------------
GetterNames ==
    {"getNumberOfFluidInterfaceNodes", "getNumberOfLocalFluidInterfaceNodes",
     "getNumberOfSolidInterfaceNodes", "getNumberOfLocalSolidInterfaceNodes",
     "getSolidSolverProcessors", "getSolidInterfaceProcessors",
     "getFluidInterfaceProcessors",
     "getSolidPhysicalInterfaceNodesDistribution",
     "getFluidPhysicalInterfaceNodesDistribution",
     "getSolidGlobalIndexRange", "getFluidGlobalIndexRange",
     "getFluidHaloNodesList", "getSolidHaloNodesList",
     "getFluidIndexing", "getSolidIndexing",
     "getnDim", "getComputationType", "getMPIComm"}

\* the value a getter returns on the manager m
Get(m, name) ==
    CASE name = "getNumberOfFluidInterfaceNodes" -> m.nFluidInterfacePhysicalNodes
      [] name = "getNumberOfLocalFluidInterfaceNodes" ->
             m.nLocalFluidInterfacePhysicalNodes
      [] name = "getNumberOfSolidInterfaceNodes" -> m.nSolidInterfacePhysicalNodes
      [] name = "getNumberOfLocalSolidInterfaceNodes" ->
             m.nLocalSolidInterfacePhysicalNodes
      [] name = "getSolidSolverProcessors" -> m.solidSolverProcessors
      [] name = "getSolidInterfaceProcessors" -> m.solidInterfaceProcessors
      [] name = "getFluidInterfaceProcessors" -> m.fluidInterfaceProcessors
      [] name = "getSolidPhysicalInterfaceNodesDistribution" ->
             m.solidPhysicalInterfaceNodesDistribution
      [] name = "getFluidPhysicalInterfaceNodesDistribution" ->
             m.fluidPhysicalInterfaceNodesDistribution
      [] name = "getSolidGlobalIndexRange" -> m.solidGlobalIndexRange
      [] name = "getFluidGlobalIndexRange" -> m.fluidGlobalIndexRange
      [] name = "getFluidHaloNodesList" -> m.fluidHaloNodesList
      [] name = "getSolidHaloNodesList" -> m.solidHaloNodesList
      [] name = "getFluidIndexing" -> m.fluidIndexing
      [] name = "getSolidIndexing" -> m.solidIndexing
      [] name = "getnDim" -> m.nDim
      [] name = "getComputationType" -> m.computationType
      [] name = "getMPIComm" -> mpiComm

\* variant: a getter that resets the total it has returned
AccessorState_Reset(m, name) ==
    IF name = "getNumberOfFluidInterfaceNodes"
    THEN [m EXCEPT !.nFluidInterfacePhysicalNodes = 0]
    ELSE m

\* the attributes of the manager after an accessor call: none is assigned
AccessorState(m, name) == m

\* the local physical node count of a side on a rank
LocalPhysicalCount(domain, iProc) ==
    IF domain = "fluid" THEN mgr[iProc].nLocalFluidInterfacePhysicalNodes
    ELSE mgr[iProc].nLocalSolidInterfacePhysicalNodes

\* lines 263-387: a getter is called on rank p
Getter(p) ==
    /\ AllArrived(StageNo("done"))
    /\ ret.name = "none"
    /\ \E name \in GetterNames :
          /\ ret' = [name |-> name, args |-> <<>>, value |-> Get(mgr[p], name)]
          /\ mgr' = [mgr EXCEPT ![p] = AccessorState(@, name)]
    /\ UNCHANGED <<w, built, mpiComm, mpiSize, FluidSolver, SolidSolver, pc, calls>>

\* lines 250-261: getGlobalIndex(domain, iProc, iLocalVertex) is called on
\* rank p, with a valid local offset of a side or with a domain that is
\* neither 'fluid' nor 'solid'
GlobalIndexCall(p) ==
    /\ AllArrived(StageNo("done"))
    /\ ret.name = "none"
    /\ \E domain \in {"fluid", "solid", "thermal"}, iProc \in Ranks :
          \E iLocalVertex \in IF domain \in {"fluid", "solid"}
                               THEN 0..(LocalPhysicalCount(domain, iProc) - 1)
                               ELSE {0} :
              /\ ret' = [name |-> "getGlobalIndex",
                         args |-> <<domain, iProc, iLocalVertex>>,
                         value |-> getGlobalIndex(mgr[p], domain, iProc,
                                                  iLocalVertex)]
              /\ mgr' = [mgr EXCEPT ![p] = AccessorState(@, "getGlobalIndex")]
    /\ UNCHANGED <<w, built, mpiComm, mpiSize, FluidSolver, SolidSolver, pc, calls>>

\* the caller has taken the returned value
Return ==
    /\ ret.name # "none"
    /\ ret' = NoCall
    /\ UNCHANGED <<w, built, mpiComm, mpiSize, FluidSolver, SolidSolver, mgr, pc, calls>>

Next ==
    \/ \E p \in Ranks : PresenceDiscovery(p)
    \/ \E p \in Ranks : ProcessorLists(p)
    \/ \E p \in Ranks : HaloExchange(p)
    \/ \E p \in Ranks : Abort(p)
    \/ \E p \in Ranks : PhysicalCount(p)
    \/ \E p \in Ranks : Distribution(p)
    \/ \E p \in Ranks : IndexRange(p)
    \/ \E p \in Ranks : LocalMap(p)
    \/ \E p \in Ranks : Merge(p)
    \/ \E p \in Ranks : Getter(p)
    \/ \E p \in Ranks : GlobalIndexCall(p)
    \/ Return

Spec == Init /\ [][Next]_vars

SpecContract == InitContract /\ [][Next]_vars

SpecVLM == InitVLM /\ [][Next]_vars

\* the calls the driver has made on the VLM solver of rank p
DriverCalls(p) == Len(FluidSolver[p].runCalls) + FluidSolver[p].otherCalls

\* the coupling calls run(t1, t2) on the VLM solver of a rank
VLMRun(p) ==
    /\ DriverCalls(p) < MaxRuns
    /\ \E t1 \in 0..MaxTime, t2 \in 0..MaxTime :
          FluidSolver' = [FluidSolver EXCEPT ![p] = VLMSolver_run(@, t1, t2)]
    /\ UNCHANGED <<w, built, mpiComm, mpiSize, SolidSolver, mgr, pc, calls, ret>>

\* the coupling calls update(dt) on the VLM solver of a rank
VLMUpdate(p) ==
    /\ DriverCalls(p) < MaxRuns
    /\ \E dt \in 0..MaxTime :
          FluidSolver' = [FluidSolver EXCEPT ![p] =
                            [VLMSolver_update(@, dt) EXCEPT !.otherCalls = @ + 1]]
    /\ UNCHANGED <<w, built, mpiComm, mpiSize, SolidSolver, mgr, pc, calls, ret>>

\* the coupling calls save(nt) on the VLM solver of a rank
VLMSave(p) ==
    /\ DriverCalls(p) < MaxRuns
    /\ \E nt \in 0..MaxTime :
          FluidSolver' = [FluidSolver EXCEPT ![p] =
                            [VLMSolver_save(@, nt) EXCEPT !.otherCalls = @ + 1]]
    /\ UNCHANGED <<w, built, mpiComm, mpiSize, SolidSolver, mgr, pc, calls, ret>>

\* getPfem() of the PFEM test module: "if w: return w", else w = pfem, the
\* problem and the mesh are built and bundled
GetPfem ==
    /\ ret.name = "none"
    /\ IF w.class # "NoneType"
       THEN /\ ret' = [name |-> "getPfem", args |-> <<>>, value |-> w]
            /\ UNCHANGED <<w, built>>
       ELSE /\ w' = PfemLibrary
            /\ built' = built + 1
            /\ ret' = [name |-> "getPfem", args |-> <<>>,
                       value |-> Module(PfemLibrary)]
    /\ UNCHANGED <<mpiComm, mpiSize, FluidSolver, SolidSolver, mgr, pc, calls>>

\* the PFEM test: the solver scripts call getPfem, the manager is built
NextPfem == Next \/ GetPfem

SpecPfem == Init /\ [][NextPfem]_vars

NextVLMRun ==
    \/ \E p \in Ranks : VLMRun(p)
    \/ \E p \in Ranks : VLMUpdate(p)
    \/ \E p \in Ranks : VLMSave(p)

\* the VLM solver by itself, before any solid solver is created
InitVLMRun == InitVLM /\ SolidSolver[0].isNone

SpecVLMRun == InitVLMRun /\ [][NextVLMRun]_vars

\* ------------------------------------------------------------------------
\* The same constructor run to its end without a communicator on the
\* solvers of rank 0 (mpiComm = None, myid = 0, mpiSize = 1)
\* ------------------------------------------------------------------------
SerialProcessors == SetProcessors(IdentifyInterfaces(NewManager, 0, FALSE), FALSE)

SerialRaises == RaisesOnHalo(SerialProcessors, 0)

SerialRun ==
    LET halo == GetHaloNodes(SerialProcessors, 0, FALSE)
        phys == PhysicalTotals(GetPhysicalNodes(halo, 0, FALSE), FALSE)
        dist == GatherSolidDistribution(GatherFluidDistribution(
                    InitDistribution(phys), FALSE), FALSE)
        rnge == SetSolidRange(SetFluidRange(dist, 0, FALSE), 0, FALSE)
        part == BuildIndexing(rnge, 0)
    IN  MergeIndexing(part, FALSE)

\* ------------------------------------------------------------------------
\* Properties
\* ------------------------------------------------------------------------
\* rank p has issued at least k collectives (has got as far as label number k)
\* and has not raised
Past(p, k) == pc[p] # "aborted" /\ StageNo(pc[p]) >= k

AllDone == \A p \in Ranks : pc[p] = "done"

\* the indices of an inclusive pair [start, stop]
IndexSet(r) == r[1]..r[2]

Injective(f) == \A a, b \in DOMAIN f : f[a] = f[b] => a = b

IsPrefix(s, t) == Len(s) <= Len(t) /\ SubSeq(t, 1, Len(s)) = s

\* the identifiers of the physical (non-halo) vertices of a side
PhysicalIds(solvers) ==
    UNION {Range(solvers[q].nodalIndex) \ solvers[q].haloNodeList : q \in Ranks}

\* the ranges of a side partition [0, total-1] in rank order
RangesPartition(R, total) ==
    /\ \A a, b \in DOMAIN R :
          a # b => IndexSet(R[a]) \cap IndexSet(R[b]) = {}
    /\ \A a, b \in DOMAIN R :
          (/\ a < b
           /\ IndexSet(R[a]) # {}
           /\ IndexSet(R[b]) # {}
           /\ \A c \in DOMAIN R : (a < c /\ c < b) => IndexSet(R[c]) = {})
          => R[b][1] = R[a][2] + 1
    /\ UNION {IndexSet(R[a]) : a \in DOMAIN R} = 0..(total - 1)

\* C1: after construction, on each side the per-rank inclusive ranges, in
\* rank order, are pairwise disjoint, contiguous, and cover exactly
\* [0, total-1].
C1_RangesPartition ==
    \A p \in Ranks :
        pc[p] = "done" =>
            /\ RangesPartition(mgr[p].fluidGlobalIndexRange,
                               mgr[p].nFluidInterfacePhysicalNodes)
            /\ RangesPartition(mgr[p].solidGlobalIndexRange,
                               mgr[p].nSolidInterfacePhysicalNodes)

\* C2: after construction, the merged map of each side has exactly total
\* entries, one per physical node, and no two keys share a value.
C2_MergedMapOnePerNode ==
    \A p \in Ranks :
        pc[p] = "done" =>
            /\ Cardinality(DOMAIN mgr[p].fluidIndexing)
                 = mgr[p].nFluidInterfacePhysicalNodes
            /\ DOMAIN mgr[p].fluidIndexing = PhysicalIds(FluidSolver)
            /\ Injective(mgr[p].fluidIndexing)
            /\ Cardinality(DOMAIN mgr[p].solidIndexing)
                 = mgr[p].nSolidInterfacePhysicalNodes
            /\ DOMAIN mgr[p].solidIndexing = PhysicalIds(SolidSolver)
            /\ Injective(mgr[p].solidIndexing)

C2_Witness ==
    /\ AllDone
    /\ mpiComm
    /\ mpiSize >= 2
    /\ \E q \in Ranks : FluidSolver[q].haloNodeList # {}
    /\ Cardinality(DOMAIN mgr[0].fluidIndexing) >= 2
    /\ \A q \in Ranks : mgr[q].fluidIndexing_temp # <<>>

\* an identifier of the halo set of rank p is no key of the partial map of
\* p, is a key of the partial map of exactly one rank, its owner, and is a
\* key of the merged map
HaloKeyFromOwner(p, id, solvers, temp, merged) ==
    /\ id \notin DOMAIN mgr[p][temp]
    /\ AllArrived(StageNo("map1")) =>
          \E q \in Ranks \ {p} :
              /\ id \in Range(solvers[q].nodalIndex) \ solvers[q].haloNodeList
              /\ {r \in Ranks : id \in DOMAIN mgr[r][temp]} = {q}
    /\ pc[p] = "done" => id \in DOMAIN mgr[p][merged]

\* C3: a node identifier in the halo set of process P is never a key of the
\* partial map P contributes, it is a key of the partial map of its owning
\* process, and the merged map holds an entry for it.
C3_HaloKeysFromOwner ==
    \A p \in Ranks :
        Past(p, StageNo("map1")) =>
            /\ \A id \in FluidSolver[p].haloNodeList :
                  HaloKeyFromOwner(p, id, FluidSolver,
                                   "fluidIndexing_temp", "fluidIndexing")
            /\ \A id \in SolidSolver[p].haloNodeList :
                  HaloKeyFromOwner(p, id, SolidSolver,
                                   "solidIndexing_temp", "solidIndexing")

C3_Witness ==
    /\ AllDone
    /\ mpiSize = 2
    /\ FluidSolver[0].nodalIndex = <<10, 11>>
    /\ FluidSolver[0].haloNodeList = {11}
    /\ DOMAIN mgr[0].fluidIndexing_temp = {10}
    /\ 11 \in DOMAIN mgr[1].fluidIndexing_temp
    /\ mgr[0].fluidIndexing[11] = 1

\* the collective calls of a complete construction, in order
CollectiveSequence ==
    <<"allgather:fluidSolver", "allgather:solidSolver",
      "allgather:fluidInterface", "allgather:solidInterface",
      "barrier",
      "allgather:fluidHalo", "allgather:solidHalo",
      "allreduce:fluidNodes", "allreduce:fluidPhysicalNodes",
      "allreduce:solidNodes", "allreduce:solidPhysicalNodes",
      "allgather:fluidDistribution", "allgather:solidDistribution",
      "allgather:fluidRange", "allgather:solidRange",
      "allgather:fluidIndexing", "allgather:solidIndexing">>

\* C4: every process issues the same sequence of collective calls in the
\* same order, and no process is blocked in a collective that another
\* process never issues.
C4_SameCollectiveSequence ==
    /\ \A p, q \in Ranks :
          IsPrefix(calls[p], calls[q]) \/ IsPrefix(calls[q], calls[p])
    /\ \A p \in Ranks : IsPrefix(calls[p], CollectiveSequence)
    /\ \A p \in Ranks : (mpiComm /\ pc[p] = "done") => calls[p] = CollectiveSequence
    /\ ~ \E p, q \in Ranks :
            /\ pc[q] = "aborted"
            /\ Len(calls[p]) > Len(calls[q])

\* what the accessors of a constructed manager return
Accessors(m) ==
    [fluidIndexing |-> m.fluidIndexing,
     solidIndexing |-> m.solidIndexing,
     fluidGlobalIndexRange |-> m.fluidGlobalIndexRange,
     solidGlobalIndexRange |-> m.solidGlobalIndexRange,
     fluidSolverProcessors |-> m.fluidSolverProcessors,
     solidSolverProcessors |-> m.solidSolverProcessors,
     fluidInterfaceProcessors |-> m.fluidInterfaceProcessors,
     solidInterfaceProcessors |-> m.solidInterfaceProcessors,
     fluidHaloNodesList |-> m.fluidHaloNodesList,
     solidHaloNodesList |-> m.solidHaloNodesList,
     fluidPhysicalInterfaceNodesDistribution |->
         m.fluidPhysicalInterfaceNodesDistribution,
     solidPhysicalInterfaceNodesDistribution |->
         m.solidPhysicalInterfaceNodesDistribution,
     nFluidInterfacePhysicalNodes |-> m.nFluidInterfacePhysicalNodes,
     nSolidInterfacePhysicalNodes |-> m.nSolidInterfacePhysicalNodes]

\* C5: a construction on a communicator of size 1 and the construction
\* without a communicator on the same solvers give the same accessor results
\* (and the one completes when the other does).
C5_SerialEqualsGroupOfOne ==
    (mpiComm /\ mpiSize = 1) =>
        /\ pc[0] = "done" =>
              (~SerialRaises /\ Accessors(mgr[0]) = Accessors(SerialRun))
        /\ pc[0] = "aborted" => SerialRaises

\* C6: a single process without communicator and without solid solver
\* completes the construction, with solid total 0, empty solid role sets and
\* an empty solid map.
C6_SerialWithoutSolid ==
    (~mpiComm /\ SolidSolver[0].isNone /\ ~FluidSolver[0].isNone) =>
        /\ pc[0] # "aborted"
        /\ pc[0] = "done" =>
              /\ mgr[0].nSolidInterfacePhysicalNodes = 0
              /\ mgr[0].solidSolverProcessors = <<>>
              /\ mgr[0].solidInterfaceProcessors = <<>>
              /\ DOMAIN mgr[0].solidIndexing = {}

\* C7: in a group of several processes, a process without fluid or without
\* solid fragment contributes the sentinel, an empty halo set and a physical
\* count of 0 for that side, and does not abort the construction.
C7_AbsentSideCompletes ==
    (mpiComm /\ mpiSize >= 2) =>
        \A p \in Ranks :
            /\ pc[p] # "aborted"
            /\ (FluidSolver[p].isNone /\ StageNo(pc[p]) >= 1) =>
                  /\ mgr[p].sendBufFluid = -1
                  /\ mgr[p].sendBufFluidInterface = -1
                  /\ mgr[p].fluidHaloNodesList_local = {}
                  /\ mgr[p].nLocalFluidInterfacePhysicalNodes = 0
            /\ (SolidSolver[p].isNone /\ StageNo(pc[p]) >= 1) =>
                  /\ mgr[p].sendBufSolid = -1
                  /\ mgr[p].sendBufSolidInterface = -1
                  /\ mgr[p].solidHaloNodesList_local = {}
                  /\ mgr[p].nLocalSolidInterfacePhysicalNodes = 0

\* C8: a process with zero local physical nodes on a side owns an empty
\* range on that side, one that contains no index and overlaps no range of
\* another rank.
C8_ZeroNodesEmptyRange ==
    \A p \in Ranks :
        pc[p] = "done" =>
            \A q \in Ranks :
                /\ mgr[p].fluidPhysicalInterfaceNodesDistribution[q] = 0
                      => IndexSet(mgr[p].fluidGlobalIndexRange[q]) = {}
                /\ mgr[p].solidPhysicalInterfaceNodesDistribution[q] = 0
                      => IndexSet(mgr[p].solidGlobalIndexRange[q]) = {}

\* C9: when the construction has completed, all processes hold the same
\* merged maps, range lists, halo lists, distribution vectors and totals.
C9_SameResultsEverywhere ==
    AllDone =>
        \A p, q \in Ranks :
            /\ mgr[p].fluidIndexing = mgr[q].fluidIndexing
            /\ mgr[p].solidIndexing = mgr[q].solidIndexing
            /\ mgr[p].fluidGlobalIndexRange = mgr[q].fluidGlobalIndexRange
            /\ mgr[p].solidGlobalIndexRange = mgr[q].solidGlobalIndexRange
            /\ mgr[p].fluidHaloNodesList = mgr[q].fluidHaloNodesList
            /\ mgr[p].solidHaloNodesList = mgr[q].solidHaloNodesList
            /\ mgr[p].fluidPhysicalInterfaceNodesDistribution
                 = mgr[q].fluidPhysicalInterfaceNodesDistribution
            /\ mgr[p].solidPhysicalInterfaceNodesDistribution
                 = mgr[q].solidPhysicalInterfaceNodesDistribution
            /\ mgr[p].nFluidInterfacePhysicalNodes
                 = mgr[q].nFluidInterfacePhysicalNodes
            /\ mgr[p].nSolidInterfacePhysicalNodes
                 = mgr[q].nSolidInterfacePhysicalNodes

C9_Witness ==
    /\ AllDone
    /\ mpiSize = MaxProcs
    /\ \A q \in Ranks : FluidSolver[q].nPhysicalNodes >= 1
    /\ \E q \in Ranks : SolidSolver[q].nPhysicalNodes >= 1
    /\ Cardinality(DOMAIN mgr[0].fluidIndexing) = mpiSize
    /\ mgr[0].fluidIndexing_temp # mgr[mpiSize - 1].fluidIndexing_temp

\* the ranks, in increasing order, whose flag is set
RanksWith(flag) == SortedSeq({q \in Ranks : mgr[q][flag]})

\* C10: after presence discovery every process holds the same four ordered
\* rank sets, each made of exactly the ranks whose flag is true, in
\* increasing rank order.
C10_PresenceView ==
    \A p \in Ranks :
        StageNo(pc[p]) >= StageNo("barrier") =>
            /\ mgr[p].fluidSolverProcessors = RanksWith("haveFluidSolver")
            /\ mgr[p].solidSolverProcessors = RanksWith("haveSolidSolver")
            /\ mgr[p].fluidInterfaceProcessors = RanksWith("haveFluidInterface")
            /\ mgr[p].solidInterfaceProcessors = RanksWith("haveSolidInterface")

\* C11: a rank is a member of an interface set only if its local
\* interface-node count on that side is nonzero, and of a solver set only if
\* it hosts that solver.
C11_RoleSetsMatchFlags ==
    \A p \in Ranks :
        pc[p] = "done" =>
            /\ \A r \in Range(mgr[p].fluidInterfaceProcessors) :
                  mgr[r].nLocalFluidInterfaceNodes # 0
            /\ \A r \in Range(mgr[p].solidInterfaceProcessors) :
                  mgr[r].nLocalSolidInterfaceNodes # 0
            /\ \A r \in Range(mgr[p].fluidSolverProcessors) :
                  ~FluidSolver[r].isNone
            /\ \A r \in Range(mgr[p].solidSolverProcessors) :
                  ~SolidSolver[r].isNone

\* the start of the range of a side that the accessor of rank p publishes
PublishedStart(p, domain, iProc) ==
    IF domain = "fluid"
    THEN Get(mgr[p], "getFluidGlobalIndexRange")[iProc][1]
    ELSE Get(mgr[p], "getSolidGlobalIndexRange")[iProc][1]

\* C12: getGlobalIndex(side, rank, k) returns range(side, rank).start + k for
\* every valid k, and the call changes no attribute of the manager.
C12_GlobalIndexIsStartPlusOffset ==
    /\ []((ret.name = "getGlobalIndex" /\ ret.args[1] \in {"fluid", "solid"}) =>
            \A p \in Ranks :
                ret.value = PublishedStart(p, ret.args[1], ret.args[2])
                              + ret.args[3])
    /\ [][(ret'.name = "getGlobalIndex") => mgr' = mgr]_vars

C12_Witness ==
    /\ ret.name = "getGlobalIndex"
    /\ ret.args = <<"fluid", 1, 1>>
    /\ ret.value = 2

\* the halo set of a collaborator names an identifier that is none of its
\* local vertices
HaloOutOfBound(solver) ==
    ~solver.isNone /\ ~(solver.haloNodeList \subseteq Range(solver.nodalIndex))

\* C13: a halo set that references an identifier outside the local nodes, or
\* a distribution vector whose sum differs from the reduced total, makes the
\* construction fail.
C13_ContractViolationFatal ==
    \A p \in Ranks :
        pc[p] = "done" =>
            /\ \A q \in Ranks :
                  ~HaloOutOfBound(FluidSolver[q]) /\ ~HaloOutOfBound(SolidSolver[q])
            /\ SumTo(mgr[p].fluidPhysicalInterfaceNodesDistribution, mpiSize)
                 = mgr[p].nFluidInterfacePhysicalNodes
            /\ SumTo(mgr[p].solidPhysicalInterfaceNodesDistribution, mpiSize)
                 = mgr[p].nSolidInterfacePhysicalNodes

\* the values of a map
Image(f) == {f[k] : k \in DOMAIN f}

\* C14: without a communicator and with both solvers present the construction
\* completes, the one process owns [0, total-1] on each side, and the merged
\* map of each side is the process's own partial map.
C14_SingleProcessOwnsAll ==
    \A p \in Ranks :
        (~mpiComm /\ ~FluidSolver[p].isNone /\ ~SolidSolver[p].isNone) =>
            /\ pc[p] # "aborted"
            /\ pc[p] = "done" =>
                  /\ mgr[p].fluidGlobalIndexRange
                       = [q \in {0} |-> <<0, mgr[p].nFluidInterfacePhysicalNodes - 1>>]
                  /\ mgr[p].solidGlobalIndexRange
                       = [q \in {0} |-> <<0, mgr[p].nSolidInterfacePhysicalNodes - 1>>]
                  /\ mgr[p].fluidIndexing = mgr[p].fluidIndexing_temp
                  /\ mgr[p].solidIndexing = mgr[p].solidIndexing_temp
                  /\ Image(mgr[p].fluidIndexing)
                       = IndexSet(mgr[p].fluidGlobalIndexRange[0])
                  /\ Image(mgr[p].solidIndexing)
                       = IndexSet(mgr[p].solidGlobalIndexRange[0])

C14_Witness ==
    /\ ~mpiComm
    /\ pc[0] = "done"
    /\ mgr[0].fluidGlobalIndexRange[0] = <<0, 1>>
    /\ mgr[0].solidGlobalIndexRange[0] = <<0, 0>>
    /\ Cardinality(DOMAIN mgr[0].fluidIndexing) = 2
    /\ Cardinality(DOMAIN mgr[0].solidIndexing) = 1

\* C15: on every process and for each side the reduced total of physical
\* nodes is the sum of the distribution vector, entry r of the vector is rank
\* r's local physical count, and every process holds the same total.
C15_TotalIsSumOfDistribution ==
    \A p \in Ranks :
        Past(p, StageNo("range1")) =>
            /\ mgr[p].nFluidInterfacePhysicalNodes
                 = SumTo(mgr[p].fluidPhysicalInterfaceNodesDistribution, mpiSize)
            /\ mgr[p].nSolidInterfacePhysicalNodes
                 = SumTo(mgr[p].solidPhysicalInterfaceNodesDistribution, mpiSize)
            /\ \A r \in Ranks :
                  /\ mgr[p].fluidPhysicalInterfaceNodesDistribution[r]
                       = mgr[r].nLocalFluidInterfacePhysicalNodes
                  /\ mgr[p].solidPhysicalInterfaceNodesDistribution[r]
                       = mgr[r].nLocalSolidInterfacePhysicalNodes
            /\ \A q \in Ranks :
                  Past(q, StageNo("range1")) =>
                      /\ mgr[q].nFluidInterfacePhysicalNodes
                           = mgr[p].nFluidInterfacePhysicalNodes
                      /\ mgr[q].nSolidInterfacePhysicalNodes
                           = mgr[p].nSolidInterfacePhysicalNodes

C15_Witness ==
    /\ mpiComm
    /\ mpiSize = MaxProcs
    /\ AllDone
    /\ mgr[0].fluidPhysicalInterfaceNodesDistribution = [q \in Ranks |-> 1]
    /\ mgr[0].nFluidInterfacePhysicalNodes = MaxProcs
    /\ mgr[0].nFluidInterfaceNodes > mgr[0].nFluidInterfacePhysicalNodes

\* C16: after construction an accessor call returns the stored value of the
\* attribute it names and leaves every attribute of every manager, the stage
\* of every rank and the trace of collective calls unchanged, so a repeated
\* call returns the value of the first.
C16_AccessorsReadOnly ==
    /\ [](ret.name \in GetterNames =>
            \E p \in Ranks : ret.value = Get(mgr[p], ret.name))
    /\ [][AllDone => (AllDone' /\ mgr' = mgr /\ calls' = calls)]_vars

C16_Witness ==
    /\ ret.name = "getFluidIndexing"
    /\ Cardinality(DOMAIN ret.value) = 2
    /\ mpiSize = MaxProcs

\* C17: for each side and each rank holding interface nodes of the side, the
\* published range starts at the sum of the distribution over the lower ranks
\* and stops at start + localPhysicalCount - 1, also when the rank holds
\* halo nodes.
C17_RangeFromPhysicalCount ==
    \A p \in Ranks :
        (pc[p] = "done" /\ mpiComm) =>
            \A r \in Ranks :
                /\ r \in Range(mgr[p].fluidInterfaceProcessors) =>
                      LET start == SumTo(mgr[p].fluidPhysicalInterfaceNodesDistribution, r)
                      IN  mgr[p].fluidGlobalIndexRange[r]
                            = <<start, start + mgr[r].nLocalFluidInterfacePhysicalNodes - 1>>
                /\ r \in Range(mgr[p].solidInterfaceProcessors) =>
                      LET start == SumTo(mgr[p].solidPhysicalInterfaceNodesDistribution, r)
                      IN  mgr[p].solidGlobalIndexRange[r]
                            = <<start, start + mgr[r].nLocalSolidInterfacePhysicalNodes - 1>>

\* the number of non-halo vertices at the local positions below j
NonHaloBefore(solver, haloKeys, j) ==
    Cardinality({i \in 0..(j - 1) : getNodalIndex(solver, i) \notin haloKeys})

\* the partial map gives the i-th non-halo vertex the index start + i and has
\* no entry for a vertex of the rank's own halo set
ConsecutiveFromStart(map, solver, haloKeys, n, start) ==
    /\ DOMAIN map = {getNodalIndex(solver, j) : j \in 0..(n - 1)} \ haloKeys
    /\ \A j \in 0..(n - 1) :
          getNodalIndex(solver, j) \notin haloKeys =>
              map[getNodalIndex(solver, j)]
                = start + NonHaloBefore(solver, haloKeys, j)

\* C18: the local map of a rank skips the vertices of its own halo set
\* without consuming an index and gives the i-th non-halo vertex, in
\* increasing local position, the index range(side, rank).start + i.
C18_LocalMapConsecutive ==
    \A p \in Ranks :
        Past(p, StageNo("map1")) =>
            /\ ConsecutiveFromStart(mgr[p].fluidIndexing_temp, FluidSolver[p],
                                    mgr[p].fluidHaloNodesList[p],
                                    mgr[p].nLocalFluidInterfaceNodes,
                                    mgr[p].fluidGlobalIndexRange[p][1])
            /\ ConsecutiveFromStart(mgr[p].solidIndexing_temp, SolidSolver[p],
                                    mgr[p].solidHaloNodesList[p],
                                    mgr[p].nLocalSolidInterfaceNodes,
                                    mgr[p].solidGlobalIndexRange[p][1])

C18_Witness ==
    /\ mpiComm
    /\ mpiSize = MaxProcs
    /\ Past(1, StageNo("map1"))
    /\ mgr[1].nLocalFluidInterfaceNodes = 2
    /\ getNodalIndex(FluidSolver[1], 0) \in mgr[1].fluidHaloNodesList[1]
    /\ mgr[1].fluidIndexing_temp = (11 :> 1)
    /\ mgr[1].fluidGlobalIndexRange[1][1] = 1

\* the halo set a solver reports; nothing for an absent solver
ReportedHalo(solver) == IF solver.isNone THEN {} ELSE solver.haloNodeList

\* C19: after construction each halo list accessor returns a sequence indexed
\* by rank, of the length of the group, whose entry r is the halo set rank
\* r's solver reports (empty if the side is absent on r), with or without a
\* communicator.
C19_HaloListAsReported ==
    \A p \in Ranks :
        pc[p] = "done" =>
            /\ DOMAIN Get(mgr[p], "getFluidHaloNodesList") = 0..(mpiSize - 1)
            /\ DOMAIN Get(mgr[p], "getSolidHaloNodesList") = 0..(mpiSize - 1)
            /\ \A r \in Ranks :
                  /\ Get(mgr[p], "getFluidHaloNodesList")[r]
                       = ReportedHalo(FluidSolver[r])
                  /\ Get(mgr[p], "getSolidHaloNodesList")[r]
                       = ReportedHalo(SolidSolver[r])

\* C20: VLMSolver.getNodalIndex maps the wing positions to themselves, the
\* flap positions into [10000, 20000) and the aileron positions into
\* [20000, 30000); the first flap vertex maps to 10000 and the first aileron
\* vertex to 20000.
C20_VLMBands ==
    \A q \in Ranks :
        LET s == FluidSolver[q]
            nw == s.wing_nvert
            nf == s.flap_nvert
        IN  \A iVertex \in 0..(s.nNodes - 1) :
                LET index == getNodalIndex(s, iVertex)
                IN  /\ iVertex < nw => index = iVertex
                    /\ (nw <= iVertex /\ iVertex < nw + nf) =>
                          (FlapOffset <= index /\ index < AileronOffset)
                    /\ nw + nf <= iVertex =>
                          (AileronOffset <= index
                             /\ index < AileronOffset + FlapOffset)
                    /\ (iVertex = nw /\ nf > 0) => index = FlapOffset
                    /\ (iVertex = nw + nf) => index = AileronOffset

\* the indices rank r writes lie in its own published range, in [0, total-1]
\* and in the range of no other rank
WritesOwnRange(partial, R, total, r) ==
    \A idx \in Image(partial) :
        /\ idx \in IndexSet(R[r])
        /\ idx \in 0..(total - 1)
        /\ \A q \in DOMAIN R : q # r => idx \notin IndexSet(R[q])

\* C21: every global index a rank writes into the merged map of a side lies
\* inside that rank's own published range and inside [0, total-1], and
\* belongs to the range of no other rank.
C21_IndicesInOwnRange ==
    \A p \in Ranks :
        pc[p] = "done" =>
            \A r \in Ranks :
                /\ WritesOwnRange(mgr[r].fluidIndexing_temp,
                                  mgr[p].fluidGlobalIndexRange,
                                  mgr[p].nFluidInterfacePhysicalNodes, r)
                /\ WritesOwnRange(mgr[r].solidIndexing_temp,
                                  mgr[p].solidGlobalIndexRange,
                                  mgr[p].nSolidInterfacePhysicalNodes, r)

\* C22: VLMSolver.getNodalIndex is injective on [0, nNodes), so a manager
\* built on a VLM fluid solver holds a fluid map of exactly nNodes distinct
\* keys, mapped to the global indices 0..nNodes-1.
C22_VLMKeysDistinct ==
    \A q \in Ranks :
        LET s == FluidSolver[q]
        IN  /\ \A i, j \in 0..(s.nNodes - 1) :
                  getNodalIndex(s, i) = getNodalIndex(s, j) => i = j
            /\ s.nPhysicalNodes = s.nNodes
            /\ s.haloNodeList = {}
            /\ pc[q] = "done" =>
                  /\ DOMAIN mgr[q].fluidIndexing
                       = {getNodalIndex(s, i) : i \in 0..(s.nNodes - 1)}
                  /\ Cardinality(DOMAIN mgr[q].fluidIndexing) = s.nNodes
                  /\ Injective(mgr[q].fluidIndexing)
                  /\ Image(mgr[q].fluidIndexing) = 0..(s.nNodes - 1)

C22_Witness ==
    /\ pc[0] = "done"
    /\ FluidSolver[0].wing_nvert = 2
    /\ FluidSolver[0].flap_nvert = 2
    /\ FluidSolver[0].aileron_nvert = 2
    /\ Cardinality(DOMAIN mgr[0].fluidIndexing) = 6

\* the positions of the calls of a kind in the log of the core solver
Positions(log, kind) == {i \in 1..Len(log) : log[i][1] = kind}

\* C23: after n >= 1 calls of run (and no other call of the driver) the
\* core solver has been run n times and updated n-1 times, no update
\* precedes the first run of the core, the k-th later call updates once with
\* dt = t2 - t1 right before it runs the core, and each call ends by
\* refreshing the nodal loads.
C23_RunUpdatesAfterFirst ==
    \A q \in Ranks :
        LET s == FluidSolver[q]
            log == s.coreSolver
            n == Len(s.runCalls)
            runs == Positions(log, "coreSolver.run")
            updates == Positions(log, "coreSolver.update")
        IN  s.otherCalls = 0 =>
            /\ s.isRun <=> n >= 1
            /\ Cardinality(runs) = n
            /\ Cardinality(Positions(log, "setCurrentState")) = n
            /\ n >= 1 =>
                  /\ Cardinality(updates) = n - 1
                  /\ Cardinality(Positions(log, "FluidSolver.update")) = n - 1
                  /\ log[1][1] = "coreSolver.run"
                  /\ log[Len(log)][1] = "setCurrentState"
                  /\ \A i \in runs : log[i + 1][1] = "setCurrentState"
                  /\ \A i \in updates :
                        /\ log[i + 1][1] = "coreSolver.run"
                        /\ log[i - 1][1] = "FluidSolver.update"
                        /\ LET k == Cardinality({j \in runs : j < i}) + 1
                           IN  log[i - 1][2] = s.runCalls[k][2] - s.runCalls[k][1]

C23_Witness ==
    /\ FluidSolver[0].otherCalls = 0
    /\ Len(FluidSolver[0].runCalls) = 3
    /\ FluidSolver[0].runCalls[2] = <<0, 1>>
    /\ FluidSolver[0].runCalls[3] = <<1, 0>>
    /\ Cardinality(Positions(FluidSolver[0].coreSolver, "coreSolver.update")) = 2

\* C24: every call of getPfem, the first and the repeated ones, returns a
\* Module object bundling the nine components, and the mesh and the problem
\* are built only once.
C24_GetPfemSameKind ==
    /\ built <= 1
    /\ ret.name = "getPfem" =>
          /\ ret.value.class = "Module"
          /\ DOMAIN ret.value
               = {"class", "w", "msh", "pbl", "solScheme", "nonLinAlgo",
                  "convCriterion", "scheme", "extManager", "gui"}

====
